---- MODULE Spec2Model ----
(***************************************************************************)
(* Model of custom-qr-creator: the colour extraction of                    *)
(* extractColorsFromImage, the style table of getStyleConfig and the       *)
(* QRCodeGenerator component (settings, preview renderer, export).         *)
(*                                                                         *)
(* Numbers.  JavaScript numbers that can be fractional (the running        *)
(* average of a bucket, the 0.8 / 1.2 derivations) are exact fractions     *)
(* <<numerator, denominator>> with a positive denominator.  Every value    *)
(* the code computes here is a dyadic rational well inside the double      *)
(* range, so the blend is exact in the code too; the products by 0.8 and   *)
(* 1.2 are taken as the exact products by 4/5 and 6/5.                     *)
(*                                                                         *)
(* Strings.  A string is a sequence of one-character strings, so that      *)
(* length, padding and letter case are what the code makes them.           *)
(***************************************************************************)
EXTENDS Integers, Sequences, FiniteSets, TLC

VARIABLES
    \* ---- extractColorsFromImage (one call) ----
    variant,      \* which source file's extractColorsFromImage runs
    pixels,       \* imageData.data, one record per RGBA quadruple
    pc,           \* "loading" | "scanning" | "resolved"
    loadOutcome,  \* "pending" | "error" | "noctx" | "ok"
    i,            \* index of the next pixel of the loop (1-based)
    colorMap,     \* the Map's values with their keys, in insertion order
    result,       \* the value the promise resolved with, or NoPalette
    \* ---- QRCodeGenerator component ----
    settings,     \* useState<QRSettings>
    exportSize,   \* useState(1024)
    qrCodeRef,    \* qrCodeRef.current: "null" until the init effect has run
    calls,        \* the collaborator calls made by the event handled last
    preview,      \* the options the preview renderer holds
    event,        \* the event handled last and its argument
    suggestedColors,  \* useState<ExtractedColors | null>
    reads,        \* FileReader reads in flight, per file
    extractions,  \* extractColorsFromImage promises in flight, per image
    uploads       \* number of files chosen in the file input so far

extractVars == <<variant, pixels, pc, loadOutcome, i, colorMap, result>>
asyncVars == <<suggestedColors, reads, extractions, uploads>>
uiVars == <<settings, exportSize, qrCodeRef, calls, preview, event,
            suggestedColors, reads, extractions, uploads>>
vars == <<variant, pixels, pc, loadOutcome, i, colorMap, result,
          settings, exportSize, qrCodeRef, calls, preview, event,
          suggestedColors, reads, extractions, uploads>>

----------------------------------------------------------------------------
(* Bounds *)

\* longest pixel array of a modelled image (the code samples 50 x 50)
MaxPixels == 3

MaxBuckets == 11

\* longest blank content string typed into the content field
MaxContentLen == 1

\* files chosen in the file input during one run
MaxUploads == 2

\* widest layout of the frame wrapper the capture scale is computed for
MaxRenderedWidth == 320

----------------------------------------------------------------------------
(* Exact fractions *)

Frac(n) == <<n, 1>>

FracAdd(x, y) == <<x[1] * y[2] + y[1] * x[2], x[2] * y[2]>>

FracSub(x, y) == <<x[1] * y[2] - y[1] * x[2], x[2] * y[2]>>

\* x * p / q for integers p, q > 0
FracScale(x, p, q) == <<x[1] * p, x[2] * q>>

\* x / y for y > 0
FracDiv(x, y) == <<x[1] * y[2], x[2] * y[1]>>

FracLess(x, y) == x[1] * y[2] < y[1] * x[2]

FracMax(x, y) == IF FracLess(x, y) THEN y ELSE x

FracMin(x, y) == IF FracLess(y, x) THEN y ELSE x

\* Math.round of a non-negative number: floor(x + 1/2)
MathRound(x) == (2 * x[1] + x[2]) \div (2 * x[2])

----------------------------------------------------------------------------
(* Strings *)

HexDigits == <<"0", "1", "2", "3", "4", "5", "6", "7",
               "8", "9", "a", "b", "c", "d", "e", "f">>

\* Number.prototype.toString(16) of a non-negative integer
RECURSIVE ToString16(_)
ToString16(n) ==
    IF n < 16 THEN <<HexDigits[n + 1]>>
    ELSE ToString16(n \div 16) \o <<HexDigits[(n % 16) + 1]>>

\* String.prototype.padStart(len, pad) for a one-character pad
RECURSIVE PadStart(_, _, _)
PadStart(s, len, pad) ==
    IF Len(s) >= len THEN s ELSE PadStart(<<pad>> \o s, len, pad)

ToHexChannel(x) == PadStart(ToString16(MathRound(x)), 2, "0")

toHex(r, g, b) ==
    <<"#">> \o ToHexChannel(r) \o ToHexChannel(g) \o ToHexChannel(b)

----------------------------------------------------------------------------
(* extractColorsFromImage *)

Variants == {"current", "part_000"}

NoPalette == [primary |-> <<>>, secondary |-> <<>>, accent |-> <<>>]

FallbackPrimary == <<"#", "0", "D", "9", "4", "8", "8">>
FallbackSecondary == <<"#", "1", "4", "B", "8", "A", "6">>
FallbackAccent == <<"#", "2", "D", "D", "4", "B", "F">>

FallbackPalette ==
    [primary |-> FallbackPrimary,
     secondary |-> FallbackSecondary,
     accent |-> FallbackAccent]

Px(r, g, b, a) == [r |-> r, g |-> g, b |-> b, a |-> a]

\* the RGBA samples the modelled images are made of
Samples ==
    { Px(255, 0, 0, 255),       \* pure red
      Px(240, 0, 0, 128),       \* a red of the same bucket, alpha at the threshold
      Px(224, 0, 0, 255),       \* #E00000
      Px(0, 0, 200, 255),       \* blue
      Px(0, 160, 0, 255),       \* green
      Px(128, 128, 128, 255),   \* grey
      Px(255, 255, 255, 255),   \* white
      Px(244, 244, 244, 255),   \* near-white
      Px(0, 0, 0, 255),         \* black
      Px(255, 0, 0, 127),       \* red below half opacity
      Px(0, 0, 0, 0) }          \* fully transparent

Images == UNION { [1..n -> Samples] : n \in 1..MaxPixels }

\* if (a < 128) continue;  part_000 also skips near-white and near-black
SurvivesNoAlpha(v, p) ==
    v = "part_000" =>
       ~(p.r + p.g + p.b > 3 * 240 \/ p.r + p.g + p.b < 3 * 15)

Survives(v, p) ==
    /\ ~(p.a < 128)
    /\ v = "part_000" =>
         ~(p.r + p.g + p.b > 3 * 240 \/ p.r + p.g + p.b < 3 * 15)

\* Math.floor(v / 32) * 32
QuantizeFloor(v) == (v \div 32) * 32

\* Math.round(v / 32) * 32
Quantize(v) == ((v + 16) \div 32) * 32

\* the Map key `${qr},${qg},${qb}`: distinct triples give distinct strings
KeyOf(p) == <<Quantize(p.r), Quantize(p.g), Quantize(p.b)>>

IndexOfKey(map, key) ==
    IF \E k \in 1..Len(map) : map[k].key = key
    THEN CHOOSE k \in 1..Len(map) : map[k].key = key
    ELSE 0

\* existing.x = (existing.x + x) / 2
BlendSum(x, c) == FracAdd(x, Frac(c))

\* existing.x + x / 2
BlendNoParens(x, c) == FracAdd(x, <<c, 2>>)

Blend(x, c) == FracScale(FracAdd(x, Frac(c)), 1, 2)

\* the iteration without existing.count++
AccumulateCountOnce(map, v, p) ==
    IF ~Survives(v, p) THEN map
    ELSE LET k == IndexOfKey(map, KeyOf(p)) IN
         IF k > 0
         THEN [map EXCEPT ![k] =
                 [key |-> @.key,
                  r |-> Blend(@.r, p.r),
                  g |-> Blend(@.g, p.g),
                  b |-> Blend(@.b, p.b),
                  count |-> @.count]]
         ELSE Append(map, [key |-> KeyOf(p), r |-> Frac(p.r), g |-> Frac(p.g),
                           b |-> Frac(p.b), count |-> 1])

\* one iteration of the pixel loop on the Map
Accumulate(map, v, p) ==
    IF ~Survives(v, p) THEN map
    ELSE LET k == IndexOfKey(map, KeyOf(p)) IN
         IF k > 0
         THEN [map EXCEPT ![k] =
                 [key |-> @.key,
                  r |-> Blend(@.r, p.r),
                  g |-> Blend(@.g, p.g),
                  b |-> Blend(@.b, p.b),
                  count |-> @.count + 1]]
         ELSE Append(map, [key |-> KeyOf(p), r |-> Frac(p.r), g |-> Frac(p.g),
                           b |-> Frac(p.b), count |-> 1])

\* Array.prototype.sort((a, b) => b.count - a.count): stable, descending count
RECURSIVE SortByCount(_)
SortByCount(s) ==
    IF s = <<>> THEN <<>>
    ELSE LET best == CHOOSE k \in 1..Len(s) :
                        /\ \A j \in 1..Len(s) : s[j].count <= s[k].count
                        /\ \A j \in 1..(k - 1) : s[j].count < s[k].count
             rest == [j \in 1..(Len(s) - 1) |-> IF j < best THEN s[j] ELSE s[j + 1]]
         IN <<s[best]>> \o SortByCount(rest)

Slice(s, n) == IF Len(s) <= n THEN s ELSE SubSeq(s, 1, n)

TopCount == 10

\* the sort without .slice(0, 10)
sortedColorsOfAll(map) == SortByCount(map)

sortedColorsOf(map) == Slice(SortByCount(map), TopCount)

\* getSaturation(r, g, b) > 0.2
IsSaturated(c) ==
    LET max == FracMax(c.r, FracMax(c.g, c.b))
        min == FracMin(c.r, FracMin(c.g, c.b))
    IN IF max[1] = 0 THEN FALSE
       ELSE FracLess(<<1, 5>>, FracDiv(FracSub(max, min), max))

RECURSIVE FilterSaturated(_)
FilterSaturated(s) ==
    IF s = <<>> THEN <<>>
    ELSE (IF IsSaturated(Head(s)) THEN <<Head(s)>> ELSE <<>>)
         \o FilterSaturated(Tail(s))

SaturatedCount == 3

saturatedColorsOf(sorted) == Slice(FilterSaturated(sorted), SaturatedCount)

ColorOf(c) == toHex(c.r, c.g, c.b)

Darker(c) == toHex(FracScale(c.r, 4, 5), FracScale(c.g, 4, 5), FracScale(c.b, 4, 5))

Brighter(c) == toHex(FracScale(c.r, 6, 5), FracScale(c.g, 6, 5), FracScale(c.b, 6, 5))

\* the branch with Math.min(255, ...) around the brightened channels
SaturatedPaletteClamped(sat) ==
    [primary |-> ColorOf(sat[1]),
     secondary |-> IF Len(sat) >= 2 THEN ColorOf(sat[2]) ELSE Darker(sat[1]),
     accent |-> IF Len(sat) >= 3 THEN ColorOf(sat[3])
                ELSE toHex(FracMin(Frac(255), FracScale(sat[1].r, 6, 5)),
                           FracMin(Frac(255), FracScale(sat[1].g, 6, 5)),
                           FracMin(Frac(255), FracScale(sat[1].b, 6, 5)))]

\* the branch taken when at least one saturated colour exists
SaturatedPalette(sat) ==
    [primary |-> ColorOf(sat[1]),
     secondary |-> IF Len(sat) >= 2 THEN ColorOf(sat[2]) ELSE Darker(sat[1]),
     accent |-> IF Len(sat) >= 3 THEN ColorOf(sat[3]) ELSE Brighter(sat[1])]

\* the branch with c3 = sortedColors[2] || c
MonochromePaletteFirstRepeated(v, sorted) ==
    IF v = "part_000"
    THEN [primary |-> ColorOf(sorted[1]),
          secondary |-> IF Len(sorted) >= 2 THEN ColorOf(sorted[2])
                        ELSE FallbackPrimary,
          accent |-> IF Len(sorted) >= 3 THEN ColorOf(sorted[3])
                     ELSE FallbackSecondary]
    ELSE LET c == sorted[1]
             c2 == IF Len(sorted) >= 2 THEN sorted[2] ELSE c
             c3 == IF Len(sorted) >= 3 THEN sorted[3] ELSE c
         IN [primary |-> ColorOf(c), secondary |-> ColorOf(c2),
             accent |-> ColorOf(c3)]

\* the branch taken when colours exist but none is saturated
MonochromePalette(v, sorted) ==
    IF v = "part_000"
    THEN [primary |-> ColorOf(sorted[1]),
          secondary |-> IF Len(sorted) >= 2 THEN ColorOf(sorted[2])
                        ELSE FallbackPrimary,
          accent |-> IF Len(sorted) >= 3 THEN ColorOf(sorted[3])
                     ELSE FallbackSecondary]
    ELSE LET c == sorted[1]
             c2 == IF Len(sorted) >= 2 THEN sorted[2] ELSE c
             c3 == IF Len(sorted) >= 3 THEN sorted[3]
                   ELSE IF Len(sorted) >= 2 THEN sorted[2] ELSE c
         IN [primary |-> ColorOf(c), secondary |-> ColorOf(c2),
             accent |-> ColorOf(c3)]

PaletteOfNoFallback(v, map) ==
    LET sortedColors == sortedColorsOf(map)
        saturatedColors == saturatedColorsOf(sortedColors)
    IN IF Len(saturatedColors) >= 1 THEN SaturatedPalette(saturatedColors)
       ELSE IF Len(sortedColors) >= 1 THEN MonochromePalette(v, sortedColors)
       ELSE NoPalette

\* what img.onload resolves with once the loop has built the Map
PaletteOf(v, map) ==
    LET sortedColors == sortedColorsOf(map)
        saturatedColors == saturatedColorsOf(sortedColors)
    IN IF Len(saturatedColors) >= 1 THEN SaturatedPalette(saturatedColors)
       ELSE IF Len(sortedColors) >= 1 THEN MonochromePalette(v, sortedColors)
       ELSE FallbackPalette

----------------------------------------------------------------------------
(* getStyleConfig *)

QRStyles == {"squares", "dots", "rounded"}

\* values a caller can pass past the type checker
StyleInputs == QRStyles \cup {"classy", "", "Dots"}

StyleRow(d, cs, cd) ==
    [dotsType |-> d, cornersSquareType |-> cs, cornersDotType |-> cd]

\* a table lookup with no default row
getStyleConfigNoDefault(style) ==
    CASE style = "dots" -> StyleRow("dots", "dot", "dot")
      [] style = "rounded" -> StyleRow("rounded", "extra-rounded", "dot")
      [] style = "squares" -> StyleRow("square", "square", "square")
      [] OTHER -> StyleRow("undefined", "undefined", "undefined")

\* the rounded row with a rounded core
getStyleConfigRoundedCore(style) ==
    CASE style = "dots" -> StyleRow("dots", "dot", "dot")
      [] style = "rounded" -> StyleRow("rounded", "extra-rounded", "rounded")
      [] OTHER -> StyleRow("square", "square", "square")

getStyleConfig(style) ==
    CASE style = "dots" -> StyleRow("dots", "dot", "dot")
      [] style = "rounded" -> StyleRow("rounded", "extra-rounded", "dot")
      [] OTHER -> StyleRow("square", "square", "square")

----------------------------------------------------------------------------
(* QRCodeGenerator: values *)

\* a key that is not in an object, and a key whose value is undefined
Absent == [kind |-> "absent"]
Undefined == [kind |-> "undefined"]
Null == [kind |-> "null"]
Str(s) == [kind |-> "string", value |-> s]
Num(n) == [kind |-> "number", value |-> n]

\* 'https://custom-qr-code.lovable.app'; text other than blanks is one token
PlaceholderUrl == <<"https://custom-qr-code.lovable.app">>

\* the imported asset lovable-heart.svg
lovableHeart == <<"lovable-heart.svg">>

ColorFF560E == <<"#", "F", "F", "5", "6", "0", "E">>
Color736EF8 == <<"#", "7", "3", "6", "E", "F", "8">>
ColorFFFFFF == <<"#", "F", "F", "F", "F", "F", "F">>

\* a colour the user types or picks
Color000000 == <<"#", "0", "0", "0", "0", "0", "0">>

UserColors == {Color000000}

\* widths the frame wrapper can be laid out at (offsetWidth)
RenderedWidths == {280, 312}

\* what the user types in the content field: the strings of spaces up to
\* MaxContentLen, the empty one included, and one that is not blank
Contents == { [k \in 1..n |-> " "] : n \in 0..MaxContentLen } \cup {<<"x">>}

GradientTypes == {"none", "linear", "radial"}

\* positions of the range input min=0 max=360
Rotations == {0, 180, 360}

FrameStyles == {"none", "simple", "rounded", "badge", "ticket"}

CTAOptions == {"none", "scan-me", "scan-to-visit", "scan-for-more", "custom"}

\* the options picked in the two selects
FrameChoices == {"none", "badge"}
CtaChoices == {"none", "custom"}

SliderMin == 256
SliderMax == 2048
SliderStep == 128

\* every position of the export resolution slider
SliderPositions ==
    { v \in SliderMin..SliderMax : (v - SliderMin) % SliderStep = 0 }
DefaultExportSize == 1024
PreviewSize == 280

\* the positions the export resolution slider is moved to
ExportSizes == {SliderMin, DefaultExportSize}

\* reader.result of the files the user can choose: data URLs
FileA == <<"data:image/png;base64,A">>
FileB == <<"data:image/png;base64,B">>

Files == {FileA, FileB}

\* every image extractColorsFromImage is called with
ImageSrcs == {lovableHeart} \cup Files

\* the sampled pixels of each image
ImagePixels(src) ==
    CASE src = lovableHeart -> <<Px(255, 0, 0, 255)>>
      [] src = FileA -> <<Px(128, 128, 128, 255)>>
      [] src = FileB -> <<Px(255, 255, 255, 255), Px(255, 255, 255, 255)>>

NoneInFlight(srcs) == [src \in srcs |-> 0]

InitialSettings ==
    [content |-> PlaceholderUrl,
     fgColor |-> ColorFF560E,
     fgColor2 |-> Color736EF8,
     bgColor |-> ColorFFFFFF,
     style |-> "squares",
     gradientType |-> "none",
     gradientRotation |-> 0,
     logo |-> Str(lovableHeart),
     logoSize |-> 50,
     frameStyle |-> "none",
     frameColor |-> ColorFF560E,
     ctaOption |-> "none",
     customCTA |-> <<>>,
     ctaColor |-> ColorFFFFFF]

----------------------------------------------------------------------------
(* QRCodeGenerator: the configurations built for the renderer *)

RECURSIVE Gcd(_, _)
Gcd(a, b) == IF b = 0 THEN a ELSE Gcd(b, a % b)

\* degrees * (Math.PI / 360)
DegToRadHalved(deg) ==
    IF deg = 0 THEN <<0, 1>>
    ELSE <<deg \div Gcd(deg, 360), 360 \div Gcd(deg, 360)>>

\* degrees * (Math.PI / 180), as the fraction <<n, d>> of pi in lowest terms
DegToRad(deg) ==
    IF deg = 0 THEN <<0, 1>>
    ELSE <<deg \div Gcd(deg, 180), 180 \div Gcd(deg, 180)>>

IsBlank(str) == \A k \in 1..Len(str) : str[k] = " "

\* the content passed through without the || fallback
DataOfRaw(s) == s.content

\* the fallback taken for every blank content
DataOfTrimmed(s) == IF IsBlank(s.content) THEN PlaceholderUrl ELSE s.content

\* settings.content || 'https://custom-qr-code.lovable.app'
DataOf(s) == IF s.content = <<>> THEN PlaceholderUrl ELSE s.content

\* settings.logo || undefined
ImageOf(s) ==
    IF s.logo = Null \/ s.logo = Str(<<>>) THEN Undefined ELSE s.logo

GradientOf(s) ==
    [type |-> s.gradientType,
     rotation |-> DegToRad(s.gradientRotation),
     colorStops |-> <<[offset |-> 0, color |-> s.fgColor],
                      [offset |-> 1, color |-> s.fgColor2]>>]

\* getColorOptions(): the init effect's fill
getColorOptions(s) ==
    IF s.gradientType = "none"
    THEN [color |-> Str(s.fgColor), gradient |-> Absent]
    ELSE [color |-> Absent, gradient |-> GradientOf(s)]

\* the gradient built whatever the mode
colorOptionsAlwaysGradient(s) ==
    [color |-> Str(s.fgColor), gradient |-> GradientOf(s)]

\* the inline colorOptions of the update effect and of downloadQR
colorOptions(s) ==
    IF s.gradientType = "none"
    THEN [color |-> Str(s.fgColor), gradient |-> Undefined]
    ELSE [color |-> Absent, gradient |-> GradientOf(s)]

\* { ...colorOptions, type }
Region(fill, type) ==
    [color |-> fill.color, gradient |-> fill.gradient, type |-> type]

ImageOptions ==
    [crossOrigin |-> "anonymous", margin |-> 8, imageSizePercent |-> 40]

\* new QRCodeStyling({...}) of the init effect
InitConfig(s) ==
    LET styleConfig == getStyleConfig(s.style)
        fill == getColorOptions(s)
    IN [width |-> Num(PreviewSize),
        height |-> Num(PreviewSize),
        data |-> DataOf(s),
        dotsOptions |-> Region(fill, styleConfig.dotsType),
        cornersSquareOptions |-> Region(fill, styleConfig.cornersSquareType),
        cornersDotOptions |-> Region(fill, styleConfig.cornersDotType),
        backgroundOptions |-> [color |-> s.bgColor],
        imageOptions |-> ImageOptions,
        image |-> ImageOf(s),
        qrOptions |-> [errorCorrectionLevel |-> "H"]]

\* the update built without the image key
UpdateConfigWithoutImage(s) ==
    LET styleConfig == getStyleConfig(s.style)
        fill == colorOptions(s)
    IN [width |-> Absent,
        height |-> Absent,
        data |-> DataOf(s),
        dotsOptions |-> Region(fill, styleConfig.dotsType),
        cornersSquareOptions |-> Region(fill, styleConfig.cornersSquareType),
        cornersDotOptions |-> Region(fill, styleConfig.cornersDotType),
        backgroundOptions |-> [color |-> s.bgColor],
        imageOptions |-> Absent,
        image |-> Absent,
        qrOptions |-> Absent]

\* qrCodeRef.current.update({...}) of the update effect
UpdateConfig(s) ==
    LET styleConfig == getStyleConfig(s.style)
        fill == colorOptions(s)
    IN [width |-> Absent,
        height |-> Absent,
        data |-> DataOf(s),
        dotsOptions |-> Region(fill, styleConfig.dotsType),
        cornersSquareOptions |-> Region(fill, styleConfig.cornersSquareType),
        cornersDotOptions |-> Region(fill, styleConfig.cornersDotType),
        backgroundOptions |-> [color |-> s.bgColor],
        imageOptions |-> Absent,
        image |-> ImageOf(s),
        qrOptions |-> Absent]

\* the export configuration built without the logo
ExportConfigNoLogo(s, size) ==
    LET styleConfig == getStyleConfig(s.style)
        fill == colorOptions(s)
    IN [width |-> Num(size),
        height |-> Num(size),
        data |-> DataOf(s),
        dotsOptions |-> Region(fill, styleConfig.dotsType),
        cornersSquareOptions |-> Region(fill, styleConfig.cornersSquareType),
        cornersDotOptions |-> Region(fill, styleConfig.cornersDotType),
        backgroundOptions |-> [color |-> s.bgColor],
        imageOptions |-> ImageOptions,
        image |-> Undefined,
        qrOptions |-> [errorCorrectionLevel |-> "H"]]

\* new QRCodeStyling({...}) of downloadQR('png')
ExportConfig(s, size) ==
    LET styleConfig == getStyleConfig(s.style)
        fill == colorOptions(s)
    IN [width |-> Num(size),
        height |-> Num(size),
        data |-> DataOf(s),
        dotsOptions |-> Region(fill, styleConfig.dotsType),
        cornersSquareOptions |-> Region(fill, styleConfig.cornersSquareType),
        cornersDotOptions |-> Region(fill, styleConfig.cornersDotType),
        backgroundOptions |-> [color |-> s.bgColor],
        imageOptions |-> ImageOptions,
        image |-> ImageOf(s),
        qrOptions |-> [errorCorrectionLevel |-> "H"]]

\* a region's fill after qrCodeRef.current.update: the keys given replace
\* the renderer's, a key left out keeps its value
MergeRegion(old, new) ==
    [color |-> IF new.color = Absent THEN old.color ELSE new.color,
     gradient |-> IF new.gradient = Absent THEN old.gradient ELSE new.gradient,
     type |-> new.type]

\* the renderer's options after qrCodeRef.current.update(new)
MergeOptions(old, new) ==
    [width |-> IF new.width = Absent THEN old.width ELSE new.width,
     height |-> IF new.height = Absent THEN old.height ELSE new.height,
     data |-> new.data,
     dotsOptions |-> MergeRegion(old.dotsOptions, new.dotsOptions),
     cornersSquareOptions |->
         MergeRegion(old.cornersSquareOptions, new.cornersSquareOptions),
     cornersDotOptions |->
         MergeRegion(old.cornersDotOptions, new.cornersDotOptions),
     backgroundOptions |-> new.backgroundOptions,
     imageOptions |-> IF new.imageOptions = Absent THEN old.imageOptions
                      ELSE new.imageOptions,
     image |-> IF new.image = Absent THEN old.image ELSE new.image,
     qrOptions |-> IF new.qrOptions = Absent THEN old.qrOptions
                   ELSE new.qrOptions]

\* one call on a collaborator: the renderer or html2canvas
Call(op, target, cfg, ext) ==
    [op |-> op, target |-> target, cfg |-> cfg, ext |-> ext]

NoConfig == [kind |-> "none"]

----------------------------------------------------------------------------
(* extractColorsFromImage: one call, step by step *)

ExtractIdle ==
    /\ pc = "loading"
    /\ loadOutcome = "pending"
    /\ i = 1
    /\ colorMap = <<>>
    /\ result = NoPalette

NotMounted ==
    /\ qrCodeRef = "null"
    /\ calls = <<>>
    /\ preview = NoConfig
    /\ event = [name |-> "none", arg |-> ""]
    /\ suggestedColors = Null
    /\ reads = NoneInFlight(Files)
    /\ extractions = NoneInFlight(ImageSrcs)
    /\ uploads = 0

UiIdle ==
    /\ settings = InitialSettings
    /\ exportSize = DefaultExportSize
    /\ NotMounted

\* img.onerror
ImgOnError ==
    /\ pc = "loading"
    /\ pc' = "resolved"
    /\ loadOutcome' = "error"
    /\ result' = FallbackPalette
    /\ UNCHANGED <<variant, pixels, i, colorMap>>
    /\ UNCHANGED uiVars

\* img.onload when canvas.getContext('2d') returns null
ImgOnLoadNoContext ==
    /\ pc = "loading"
    /\ pc' = "resolved"
    /\ loadOutcome' = "noctx"
    /\ result' = FallbackPalette
    /\ UNCHANGED <<variant, pixels, i, colorMap>>
    /\ UNCHANGED uiVars

\* img.onload up to the start of the pixel loop
ImgOnLoad ==
    /\ pc = "loading"
    /\ pc' = "scanning"
    /\ loadOutcome' = "ok"
    /\ i' = 1
    /\ colorMap' = <<>>
    /\ UNCHANGED <<variant, pixels, result>>
    /\ UNCHANGED uiVars

\* one iteration of for (let i = 0; i < pixels.length; i += 4)
ScanPixel ==
    /\ pc = "scanning"
    /\ i <= Len(pixels)
    /\ colorMap' = Accumulate(colorMap, variant, pixels[i])
    /\ i' = i + 1
    /\ UNCHANGED <<variant, pixels, pc, loadOutcome, result>>
    /\ UNCHANGED uiVars

\* the rest of img.onload: sort, filter, choose the slots, resolve
ResolvePalette ==
    /\ pc = "scanning"
    /\ i > Len(pixels)
    /\ result' = PaletteOf(variant, colorMap)
    /\ pc' = "resolved"
    /\ UNCHANGED <<variant, pixels, loadOutcome, i, colorMap>>
    /\ UNCHANGED uiVars

InitExtract ==
    /\ variant \in Variants
    /\ pixels \in Images
    /\ ExtractIdle
    /\ UiIdle

NextExtract ==
    \/ ImgOnError
    \/ ImgOnLoadNoContext
    \/ ImgOnLoad
    \/ ScanPixel
    \/ ResolvePalette

SpecExtract == InitExtract /\ [][NextExtract]_vars

\* the k-th colour of a many-coloured image: every k has a key of its own,
\* in a strongly coloured and in a pale form
BucketPixel(k, saturated) ==
    IF saturated
    THEN (IF k <= 8 THEN Px(255, 0, 32 * (k - 1), 255)
          ELSE Px(0, 255, 32 * (k - 9), 255))
    ELSE IF k = 1 THEN Px(250, 200, 200, 255)   \* saturation exactly 0.2
    ELSE IF k = 2 THEN Px(0, 0, 0, 255)         \* max channel 0
    ELSE IF k <= 9 THEN Px(32 * (k - 2), 32 * (k - 2), 32 * (k - 2), 255)
    ELSE IF k = 10 THEN Px(224, 224, 192, 255)
    ELSE IF k = 11 THEN Px(224, 192, 224, 255)
    ELSE IF k = 12 THEN Px(192, 224, 224, 255)
    ELSE Px(192, 192, 224, 255)

\* the places of an image of n colours where a strong colour may stand
StrongPlaces(n) == {1, 2, 5, TopCount} \cup (TopCount + 1)..n

\* one pixel per colour, in scan order
BasePixels(n, strong) == [k \in 1..n |-> BucketPixel(k, k \in strong)]

\* nothing more, one more pixel of the d-th colour, or a pixel that pulls the
\* colour of the first bucket away from its first sample
ExtraPixels(n, strong) ==
    {<<>>, <<Px(255, 190, 190, 255)>>}
        \cup { <<BucketPixel(d, d \in strong)>> : d \in 1..n }

\* images with more colours than the ranking keeps
ManyColouredImages ==
    UNION { UNION { { BasePixels(n, strong) \o extra :
                          extra \in ExtraPixels(n, strong) } :
                    strong \in SUBSET (StrongPlaces(n) \cap 1..n) } :
            n \in 1..MaxBuckets }

InitRank ==
    /\ variant \in Variants
    /\ pixels \in ManyColouredImages
    /\ ExtractIdle
    /\ UiIdle

SpecRank == InitRank /\ [][NextExtract]_vars

----------------------------------------------------------------------------
(* QRCodeGenerator: events *)

Event(name, arg) == [name |-> name, arg |-> arg]

\* the update effect: runs after every render that changed settings
UpdateEffect(ref, s) ==
    IF ref = "null" THEN <<>>
    ELSE <<Call("update", ref, UpdateConfig(s), "")>>

RECURSIVE ScanFrom(_, _, _)
\* the pixel loop of one extraction run to its end
ScanFrom(map, px, k) ==
    IF k > Len(px) THEN map
    ELSE ScanFrom(Accumulate(map, "current", px[k]), px, k + 1)

\* the palette extractColorsFromImage(src) resolves with when the image
\* decodes (SpecExtract follows one call step by step, failures included)
ExtractedColors(src) == PaletteOf("current", ScanFrom(<<>>, ImagePixels(src), 1))

\* the mount: the extraction effect, the init effect, then the update effect
Mount ==
    /\ qrCodeRef = "null"
    /\ qrCodeRef' = "preview"
    /\ calls' = <<Call("new", "preview", InitConfig(settings), ""),
                  Call("append", "preview", NoConfig, "")>>
                \o UpdateEffect("preview", settings)
    /\ preview' = MergeOptions(InitConfig(settings), UpdateConfig(settings))
    /\ extractions' = IF settings.logo = Str(lovableHeart)
                      THEN [extractions EXCEPT ![lovableHeart] = @ + 1]
                      ELSE extractions
    /\ event' = Event("mount", "")
    /\ UNCHANGED <<settings, exportSize, suggestedColors, reads, uploads>>
    /\ UNCHANGED extractVars

\* updateSetting(key, value) and the render and update effect that follow
updateSetting(key, value) ==
    /\ qrCodeRef # "null"
    /\ settings' = [settings EXCEPT ![key] = value]
    /\ calls' = UpdateEffect(qrCodeRef, settings')
    /\ preview' = MergeOptions(preview, UpdateConfig(settings'))
    /\ UNCHANGED <<exportSize, qrCodeRef>>
    /\ UNCHANGED extractVars

\* onChange of an input control: (e) => updateSetting(key, e.target.value)
Edit(key, value) ==
    /\ updateSetting(key, value)
    /\ event' = Event("updateSetting", "")
    /\ UNCHANGED asyncVars

SetContent ==
    \E c \in Contents : Edit("content", c)

SetFgColor ==
    \E c \in UserColors : Edit("fgColor", c)

SetBgColor ==
    \E c \in UserColors : Edit("bgColor", c)

SetStyle ==
    \E st \in QRStyles : Edit("style", st)

SetGradientType ==
    \E g \in GradientTypes : Edit("gradientType", g)

\* the second colour picker is rendered only in a gradient mode
SetFgColor2 ==
    /\ settings.gradientType # "none"
    /\ \E c \in UserColors : Edit("fgColor2", c)

\* the rotation slider rendered in both gradient modes
SetGradientRotationAnyGradient ==
    /\ settings.gradientType # "none"
    /\ \E d \in Rotations : Edit("gradientRotation", d)

\* a rotation control with no upper end
SetGradientRotationNoMax ==
    /\ settings.gradientType = "linear"
    /\ \E d \in Rotations : Edit("gradientRotation", d + 1)

\* the rotation slider is rendered only in linear mode
SetGradientRotation ==
    /\ settings.gradientType = "linear"
    /\ \E d \in Rotations : Edit("gradientRotation", d)

SetFrameStyle ==
    \E f \in FrameChoices : Edit("frameStyle", f)

SetCtaOption ==
    \E o \in CtaChoices : Edit("ctaOption", o)

\* the export resolution slider
SetExportSize ==
    /\ qrCodeRef # "null"
    /\ \E v \in ExportSizes : exportSize' = v
    /\ calls' = <<>>
    /\ event' = Event("setExportSize", "")
    /\ UNCHANGED <<settings, qrCodeRef, preview>>
    /\ UNCHANGED asyncVars
    /\ UNCHANGED extractVars

\* exportSize / renderedWidth, not clamped
CaptureScaleUnclamped(size, renderedWidth) ==
    <<size, renderedWidth>>

\* Math.max(1, exportSize / renderedWidth)
CaptureScale(size, renderedWidth) ==
    FracMax(Frac(1), <<size, renderedWidth>>)

\* the capture taken only when a frame is chosen
hasFrameOnly(s) == s.frameStyle # "none"

\* the caption test inverted
hasFrameOrNoCTA(s) == s.frameStyle # "none" \/ s.ctaOption = "none"

\* const hasFrameOrCTA = ...
hasFrameOrCTA(s) == s.frameStyle # "none" \/ s.ctaOption # "none"

\* the try block of downloadQR and its catch: html2canvas on the wrapper,
\* then the link qr-code.png, or console.error when the capture fails
FramedExport(size, renderedWidth, ok) ==
    <<Call("html2canvas", "frameWrapper",
           [scale |-> CaptureScale(size, renderedWidth)], "")>>
    \o (IF ok
        THEN <<Call("save", "link", NoConfig, "png")>>
        ELSE <<Call("console.error", "console", NoConfig, "")>>)

\* both formats downloaded from the preview renderer
DirectExportFromPreview(ref, s, size, format, ok) ==
    <<Call("download", ref, NoConfig, format)>>
    \o (IF ok
        THEN <<Call("save", ref, NoConfig, format)>>
        ELSE <<Call("unhandledrejection", "window", NoConfig, "")>>)

\* the else branch of downloadQR: no try around it and the promise of
\* download() is dropped, so its failure is an unhandled rejection
DirectExport(ref, s, size, format, ok) ==
    LET target == IF format = "png" THEN "exportQR" ELSE ref IN
    (IF format = "png"
     THEN <<Call("new", "exportQR", ExportConfig(s, size), "")>>
     ELSE <<>>)
    \o <<Call("download", target, NoConfig, format)>>
    \o (IF ok
        THEN <<Call("save", target, NoConfig, format)>>
        ELSE <<Call("unhandledrejection", "window", NoConfig, "")>>)

\* the export taken from the preview renderer resized to the export size
DownloadQRResizingPreview ==
    /\ qrCodeRef # "null"
    /\ \E format \in {"png", "svg"}, w \in RenderedWidths, ok \in BOOLEAN :
          /\ calls' = IF hasFrameOrCTA(settings)
                      THEN FramedExport(exportSize, w, ok)
                      ELSE DirectExport(qrCodeRef, settings, exportSize,
                                        format, ok)
          /\ event' = Event("downloadQR", format)
    /\ preview' = [preview EXCEPT !.width = Num(exportSize),
                                  !.height = Num(exportSize)]
    /\ UNCHANGED <<settings, exportSize, qrCodeRef>>
    /\ UNCHANGED asyncVars
    /\ UNCHANGED extractVars

\* downloadQR(format)
DownloadQR ==
    /\ qrCodeRef # "null"
    /\ \E format \in {"png", "svg"}, w \in RenderedWidths, ok \in BOOLEAN :
          /\ calls' = IF hasFrameOrCTA(settings)
                      THEN FramedExport(exportSize, w, ok)
                      ELSE DirectExport(qrCodeRef, settings, exportSize,
                                        format, ok)
          /\ event' = Event("downloadQR", format)
    /\ UNCHANGED <<settings, exportSize, qrCodeRef, preview>>
    /\ UNCHANGED asyncVars
    /\ UNCHANGED extractVars

\* handleLogoUpload(e) with a file chosen: reader.readAsDataURL(file)
handleLogoUpload ==
    /\ qrCodeRef # "null"
    /\ uploads < MaxUploads
    /\ \E file \in Files : reads' = [reads EXCEPT ![file] = @ + 1]
    /\ uploads' = uploads + 1
    /\ calls' = <<>>
    /\ event' = Event("handleLogoUpload", "")
    /\ UNCHANGED <<settings, exportSize, qrCodeRef, preview,
                   suggestedColors, extractions>>
    /\ UNCHANGED extractVars

\* reader.onloadend writing setSettings({ ...settings, logo }) with the
\* settings the callback captured when useCallback(..., []) created it
ReaderOnLoadEndStale ==
    \E file \in Files :
        /\ reads[file] > 0
        /\ reads' = [reads EXCEPT ![file] = @ - 1]
        /\ qrCodeRef # "null"
        /\ settings' = [InitialSettings EXCEPT !.logo = Str(file)]
        /\ calls' = UpdateEffect(qrCodeRef, settings')
        /\ preview' = MergeOptions(preview, UpdateConfig(settings'))
        /\ UNCHANGED <<exportSize, qrCodeRef>>
        /\ UNCHANGED extractVars
        /\ extractions' = [extractions EXCEPT ![file] = @ + 1]
        /\ event' = Event("onloadend", "")
        /\ UNCHANGED <<suggestedColors, uploads>>

\* reader.onloadend up to its await: the logo is written and the extraction
\* of the file starts
ReaderOnLoadEnd ==
    \E file \in Files :
        /\ reads[file] > 0
        /\ reads' = [reads EXCEPT ![file] = @ - 1]
        /\ updateSetting("logo", Str(file))
        /\ extractions' = [extractions EXCEPT ![file] = @ + 1]
        /\ event' = Event("onloadend", "")
        /\ UNCHANGED <<suggestedColors, uploads>>

\* the resolution applies the primary colour to the foreground as well
ExtractionResolvesAndApplies ==
    \E src \in ImageSrcs :
        /\ extractions[src] > 0
        /\ extractions' = [extractions EXCEPT ![src] = @ - 1]
        /\ suggestedColors' = ExtractedColors(src)
        /\ updateSetting("fgColor", ExtractedColors(src).primary)
        /\ event' = Event("setSuggestedColors", "")
        /\ UNCHANGED <<reads, uploads>>

\* an extraction resolves: .then(setSuggestedColors) of the mount effect,
\* setSuggestedColors(colors) after the await of onloadend
ExtractionResolves ==
    \E src \in ImageSrcs :
        /\ extractions[src] > 0
        /\ extractions' = [extractions EXCEPT ![src] = @ - 1]
        /\ suggestedColors' = ExtractedColors(src)
        /\ calls' = <<>>
        /\ event' = Event("setSuggestedColors", "")
        /\ UNCHANGED <<settings, exportSize, qrCodeRef, preview, reads, uploads>>
        /\ UNCHANGED extractVars

\* removeLogo that also drops the extractions in flight
removeLogoCancelling ==
    /\ settings.logo # Null
    /\ updateSetting("logo", Null)
    /\ suggestedColors' = Null
    /\ extractions' = NoneInFlight(ImageSrcs)
    /\ event' = Event("removeLogo", "")
    /\ UNCHANGED <<reads, uploads>>

\* removeLogo, the button rendered while settings.logo is set
removeLogo ==
    /\ settings.logo # Null
    /\ updateSetting("logo", Null)
    /\ suggestedColors' = Null
    /\ event' = Event("removeLogo", "")
    /\ UNCHANGED <<reads, extractions, uploads>>

Slots == {"primary", "secondary", "accent"}

\* a click on a swatch of a colour field: onChange(suggestedColors.<slot>)
ClickSwatch(key) ==
    /\ suggestedColors # Null
    /\ \E slot \in Slots : updateSetting(key, suggestedColors[slot])
    /\ event' = Event("swatch", key)
    /\ UNCHANGED asyncVars

\* the swatches of the foreground picker
ClickFgSwatch == ClickSwatch("fgColor")

\* the swatches of the frame colour, rendered with a frame or a caption
ClickFrameColorSwatch ==
    /\ hasFrameOrCTA(settings)
    /\ ClickSwatch("frameColor")

Init ==
    /\ variant = "current"
    /\ pixels = <<>>
    /\ ExtractIdle
    /\ UiIdle

Next ==
    \/ Mount
    \/ SetContent
    \/ SetFgColor
    \/ SetBgColor
    \/ SetStyle
    \/ SetGradientType
    \/ SetFgColor2
    \/ SetGradientRotation
    \/ SetFrameStyle
    \/ SetCtaOption
    \/ SetExportSize
    \/ DownloadQR

Spec == Init /\ [][Next]_vars

\* the builders applied to settings drawn from their whole input space
ResolveInputs ==
    { [InitialSettings EXCEPT !.style = st, !.gradientType = g,
                              !.gradientRotation = d, !.content = c] :
        st \in StyleInputs, g \in GradientTypes, d \in Rotations,
        c \in Contents \cup {PlaceholderUrl} }

InitResolve ==
    /\ variant = "current"
    /\ pixels = <<>>
    /\ ExtractIdle
    /\ settings \in ResolveInputs
    /\ exportSize = DefaultExportSize
    /\ NotMounted

NextResolve ==
    \/ Mount
    \/ SetExportSize
    \/ DownloadQR

SpecResolve == InitResolve /\ [][NextResolve]_vars

\* the logo and its suggestions: uploads, extractions and removal, with
\* the swatches of the foreground and frame colours and the edits that
\* show them
NextAsync ==
    \/ Mount
    \/ handleLogoUpload
    \/ ReaderOnLoadEnd
    \/ ExtractionResolves
    \/ removeLogo
    \/ ClickFgSwatch
    \/ ClickFrameColorSwatch
    \/ SetStyle
    \/ SetFrameStyle

SpecAsync == Init /\ [][NextAsync]_vars

----------------------------------------------------------------------------
(* Claims about extractColorsFromImage, checked under SpecExtract *)

HexChars == {"0", "1", "2", "3", "4", "5", "6", "7", "8", "9",
             "a", "b", "c", "d", "e", "f", "A", "B", "C", "D", "E", "F"}

\* '#' followed by exactly 6 hexadecimal digits
WellFormedColor(s) ==
    /\ Len(s) = 7
    /\ s[1] = "#"
    /\ \A k \in 2..7 : s[k] \in HexChars

Computed == pc = "resolved" /\ loadOutcome = "ok"

Opaque(p) == p.a >= 128

PixelSaturated(p) == IsSaturated([r |-> Frac(p.r), g |-> Frac(p.g), b |-> Frac(p.b)])

NearWhite(p) == p.r + p.g + p.b > 3 * 240

AllTransparent == \A k \in 1..Len(pixels) : ~Opaque(pixels[k])

OpaqueAllNearWhite ==
    /\ \E k \in 1..Len(pixels) : Opaque(pixels[k])
    /\ \A k \in 1..Len(pixels) : Opaque(pixels[k]) => NearWhite(pixels[k])

\* every pixel is opaque and has the colour (r, g, b)
UniformImage(r, g, b) ==
    \A k \in 1..Len(pixels) :
        /\ Opaque(pixels[k])
        /\ pixels[k].r = r /\ pixels[k].g = g /\ pixels[k].b = b

\* C1: an image with at least one pixel of alpha >= 128 and saturation > 0.2
\* resolves to a palette whose primary, secondary and accent are each '#'
\* followed by exactly 6 hexadecimal digits.
C1_WellFormedPalette ==
    (/\ Computed
     /\ \E k \in 1..Len(pixels) : Opaque(pixels[k]) /\ PixelSaturated(pixels[k]))
    => /\ WellFormedColor(result.primary)
       /\ WellFormedColor(result.secondary)
       /\ WellFormedColor(result.accent)

\* C2 as stated: an all-transparent image, and likewise an image whose opaque
\* pixels are all near-white, resolves to exactly the fallback triple.
C2_FallbackForTransparentOrNearWhite ==
    (Computed /\ (AllTransparent \/ OpaqueAllNearWhite))
    => result = FallbackPalette

White7 == <<"#", "f", "f", "f", "f", "f", "f">>

\* C2 amended: an all-transparent image resolves to exactly the fallback
\* triple; an image whose opaque pixels are all near-white does so only in the
\* variant with the brightness filter (part_000), while the current
\* extractColorsFromImage resolves to the colour strings of its most frequent
\* near-white buckets (#ffffff three times for a white image), not the fallback.
C2_FallbackOnlyWithoutSurvivors ==
    Computed =>
      /\ AllTransparent => result = FallbackPalette
      /\ (OpaqueAllNearWhite /\ variant = "part_000") => result = FallbackPalette
      /\ (OpaqueAllNearWhite /\ variant = "current") =>
            /\ result # FallbackPalette
            /\ result.primary \notin {FallbackPrimary, FallbackSecondary, FallbackAccent}
            /\ UniformImage(255, 255, 255) =>
                  result = [primary |-> White7, secondary |-> White7, accent |-> White7]

\* C2 witness: the current variant has resolved an all-white image to #ffffff
C2_Witness ==
    /\ Computed
    /\ variant = "current"
    /\ Len(pixels) = 2
    /\ UniformImage(255, 255, 255)
    /\ result.primary = White7

Populated(p) ==
    \A slot \in {p.primary, p.secondary, p.accent} : Len(slot) >= 7 /\ slot[1] = "#"

\* C3: the call never fails.  The resolved palette has all three slots
\* populated; a load error or a missing 2D context resolves at once to exactly
\* the fallback triple; and once the image has loaded the handler cannot stay
\* pending: the loop index stays within 1..Len(pixels)+1 and every step either
\* advances it or resolves the promise, which is then never changed again.
C3_NeverFails ==
    /\ [](pc = "resolved" => Populated(result))
    /\ [](loadOutcome \in {"error", "noctx"} =>
             pc = "resolved" /\ result = FallbackPalette)
    /\ [](loadOutcome # "pending" => pc # "loading")
    /\ [](pc = "scanning" => loadOutcome = "ok" /\ i \in 1..(Len(pixels) + 1))
    /\ [][pc = "scanning" => (i' = i + 1 /\ pc' = "scanning") \/ pc' = "resolved"]_vars
    /\ [][pc = "resolved" => pc' = "resolved" /\ result' = result]_vars

\* C3 witness: a failed load has resolved to the fallback triple
C3_Witness ==
    /\ loadOutcome = "error"
    /\ pc = "resolved"
    /\ result = FallbackPalette

Red7Upper == <<"#", "F", "F", "0", "0", "0", "0">>
Red7 == <<"#", "f", "f", "0", "0", "0", "0">>
E07 == <<"#", "e", "0", "0", "0", "0", "0">>

\* C4 as stated: a pure red image of any size yields the primary #FF0000
C4_PureRedIsFF0000 ==
    (Computed /\ UniformImage(255, 0, 0)) => result.primary = Red7Upper

\* C4 amended: an image of opaque pixels of one saturated colour c yields as
\* primary exactly toHex(c), whatever the number of pixels: no drift from the
\* blend or the quantization.  toHex writes lowercase digits: pure red yields
\* #ff0000 and #E00000 yields #e00000.
C4_UniformImageNoDrift ==
    Computed =>
      \A c \in Samples :
         (UniformImage(c.r, c.g, c.b) /\ PixelSaturated(c)) =>
            /\ result.primary = toHex(Frac(c.r), Frac(c.g), Frac(c.b))
            /\ (c.r = 255 /\ c.g = 0 /\ c.b = 0) => result.primary = Red7
            /\ (c.r = 224 /\ c.g = 0 /\ c.b = 0) => result.primary = E07

\* C4 witness: three pure red pixels have been blended and resolved
C4_Witness ==
    /\ Computed
    /\ Len(pixels) = 3
    /\ UniformImage(255, 0, 0)
    /\ Len(colorMap) = 1 /\ colorMap[1].count = 3
    /\ result.primary = Red7

----------------------------------------------------------------------------
(* Claims about the configurations handed to the renderer *)

\* the renderer calls of the last event that carry a configuration
ConfigCalls == { k \in 1..Len(calls) : calls[k].op \in {"new", "update"} }

ShapesOf(cfg) ==
    <<cfg.dotsOptions.type, cfg.cornersSquareOptions.type, cfg.cornersDotOptions.type>>

FillOf(region) == [color |-> region.color, gradient |-> region.gradient]

\* C5 as stated: squares -> (square, square, square), dots -> (dot, dot, dot),
\* rounded -> (rounded, extra-rounded, dot)
C5_TableWithDotRow ==
    \A k \in ConfigCalls :
        /\ settings.style = "squares" => ShapesOf(calls[k].cfg) = <<"square", "square", "square">>
        /\ settings.style = "dots" => ShapesOf(calls[k].cfg) = <<"dot", "dot", "dot">>
        /\ settings.style = "rounded" => ShapesOf(calls[k].cfg) = <<"rounded", "extra-rounded", "dot">>

\* C5 amended: squares -> (square, square, square), dots -> (dots, dot, dot),
\* rounded -> (rounded, extra-rounded, dot): the data-module token of the dots
\* row is 'dots'.
C5_StyleTable ==
    \A k \in ConfigCalls :
        /\ settings.style = "squares" => ShapesOf(calls[k].cfg) = <<"square", "square", "square">>
        /\ settings.style = "dots" => ShapesOf(calls[k].cfg) = <<"dots", "dot", "dot">>
        /\ settings.style = "rounded" => ShapesOf(calls[k].cfg) = <<"rounded", "extra-rounded", "dot">>

\* C5 witness: the dots style has been selected and handed to the renderer
C5_Witness ==
    /\ settings.style = "dots"
    /\ Len(calls) = 1 /\ calls[1].op = "update"
    /\ ShapesOf(calls[1].cfg) = <<"dots", "dot", "dot">>

\* the shape tokens of the renderer
DotTypes == {"dots", "rounded", "classy", "classy-rounded", "square", "extra-rounded"}
CornerSquareTypes == {"dot", "square", "extra-rounded"}
CornerDotTypes == {"dot", "square"}

\* C6: getStyleConfig is total: every input, recognized or not, gives a
\* complete triple of shape tokens, and an unrecognized input gives the
\* triple of 'squares'.
C6_TotalWithSquaresDefault ==
    \A k \in ConfigCalls :
        LET shapes == ShapesOf(calls[k].cfg) IN
        /\ shapes[1] \in DotTypes
        /\ shapes[2] \in CornerSquareTypes
        /\ shapes[3] \in CornerDotTypes
        /\ settings.style \notin QRStyles =>
              /\ shapes = <<"square", "square", "square">>
              /\ shapes = ShapesOf(ExportConfig([settings EXCEPT !.style = "squares"],
                                                exportSize))

\* C6 witness: an unrecognized style has been resolved for the renderer
C6_Witness ==
    /\ settings.style = "classy"
    /\ Len(calls) = 3 /\ calls[1].op = "new"
    /\ ShapesOf(calls[1].cfg) = <<"square", "square", "square">>

\* C7 as stated: for every empty or whitespace-only content the data field of
\* every configuration handed to the renderer is the placeholder URL
C7_BlankContentGetsPlaceholder ==
    \A k \in ConfigCalls :
        IsBlank(settings.content) => calls[k].cfg.data = PlaceholderUrl

\* C7 amended: for the empty content string the data field of every
\* configuration handed to the renderer is the placeholder URL; every
\* non-empty content, a whitespace-only one included, is handed over unchanged.
C7_EmptyContentGetsPlaceholder ==
    \A k \in ConfigCalls :
        /\ settings.content = <<>> => calls[k].cfg.data = PlaceholderUrl
        /\ settings.content # <<>> => calls[k].cfg.data = settings.content

\* C7 witness: a PNG export was built while the content was empty
C7_Witness ==
    /\ settings.content = <<>>
    /\ Len(calls) = 3
    /\ calls[1].op = "new" /\ calls[1].target = "exportQR"
    /\ calls[1].cfg.data = PlaceholderUrl

\* C8: after any sequence of content edits the data field handed to the
\* renderer is never the empty string.
C8_DataNeverEmpty ==
    \A k \in ConfigCalls : calls[k].cfg.data # <<>>

\* C8 witness: the content was edited to the empty string and the preview updated
C8_Witness ==
    /\ settings.content = <<>>
    /\ Len(calls) = 1 /\ calls[1].op = "update"
    /\ calls[1].cfg.data # <<>>

\* C9: the three regions carry the same fill: in solid mode the colour
\* fgColor and no gradient, in a gradient mode one descriptor of that type
\* with the stops fgColor at 0 and fgColor2 at 1; the background is the solid
\* bgColor in every mode.
C9_RegionsShareFill ==
    \A k \in ConfigCalls :
        LET cfg == calls[k].cfg
            fill == FillOf(cfg.dotsOptions)
        IN /\ FillOf(cfg.cornersSquareOptions) = fill
           /\ FillOf(cfg.cornersDotOptions) = fill
           /\ settings.gradientType = "none" =>
                 /\ fill.color = Str(settings.fgColor)
                 /\ fill.gradient \in {Absent, Undefined}
           /\ settings.gradientType # "none" =>
                 /\ fill.gradient \notin {Absent, Undefined}
                 /\ fill.gradient.type = settings.gradientType
                 /\ fill.gradient.colorStops =
                       <<[offset |-> 0, color |-> settings.fgColor],
                         [offset |-> 1, color |-> settings.fgColor2]>>
           /\ cfg.backgroundOptions = [color |-> settings.bgColor]

\* C9 witness: solid mode again after the second colour was edited in a
\* gradient mode, with the gradient cleared in the update
C9_Witness ==
    /\ settings.gradientType = "none"
    /\ settings.fgColor2 # InitialSettings.fgColor2
    /\ settings.bgColor # InitialSettings.bgColor
    /\ Len(calls) = 1 /\ calls[1].op = "update"
    /\ calls[1].cfg.dotsOptions.gradient = Undefined
    /\ calls[1].cfg.dotsOptions.color = Str(settings.fgColor)

WithRotation(d) == [settings EXCEPT !.gradientRotation = d]

NoRotation(cfg) ==
    LET strip(region) ==
          [region EXCEPT !.gradient =
              IF @ \in {Absent, Undefined} THEN @
              ELSE [type |-> @.type, colorStops |-> @.colorStops]]
    IN [cfg EXCEPT !.dotsOptions = strip(@),
                   !.cornersSquareOptions = strip(@),
                   !.cornersDotOptions = strip(@)]

\* C10 as stated: in radial mode the configuration built for the renderer is
\* the same for every value of gradientRotation
C10_RadialConfigIgnoresRotation ==
    settings.gradientType = "radial" =>
        \A d \in Rotations :
            /\ UpdateConfig(WithRotation(d)) = UpdateConfig(settings)
            /\ ExportConfig(WithRotation(d), exportSize) = ExportConfig(settings, exportSize)

\* C10 amended: in radial mode the gradient descriptor handed to the renderer
\* still carries rotation = gradientRotation * pi/180, the angle last set in
\* linear mode, and the configurations built for two angles differ in that
\* field only; the rotation control exists only in linear mode, so no event
\* changes the angle while the mode stays radial.
C10_RadialCarriesRotation ==
    /\ [](settings.gradientType = "radial" =>
            /\ \A k \in ConfigCalls :
                  calls[k].cfg.dotsOptions.gradient.rotation =
                     DegToRad(settings.gradientRotation)
            /\ \A d \in Rotations :
                  /\ NoRotation(UpdateConfig(WithRotation(d))) =
                        NoRotation(UpdateConfig(settings))
                  /\ d # settings.gradientRotation =>
                        UpdateConfig(WithRotation(d)) # UpdateConfig(settings))
    /\ [][(settings.gradientType = "radial" /\ settings'.gradientType = "radial")
            => settings'.gradientRotation = settings.gradientRotation]_vars

\* C10 witness: radial mode entered with the angle 180 set before in linear mode
C10_Witness ==
    /\ settings.gradientType = "radial"
    /\ settings.gradientRotation = 180
    /\ Len(calls) = 1 /\ calls[1].op = "update"
    /\ calls[1].cfg.dotsOptions.gradient.rotation = <<1, 1>>

----------------------------------------------------------------------------
(* Claims about the pixel loop, checked under SpecExtract *)

FracEq(x, y) == x[1] * y[2] = y[1] * x[2]

FracLeq(x, y) == x[1] * y[2] <= y[1] * x[2]

Multiples32 == { 32 * k : k \in 0..8 }

\* the multiple of 32 nearest to v, the upper one at equal distance
NearestMultiple(v) == CHOOSE q \in Multiples32 : q - 16 <= v /\ v < q + 16

\* the largest multiple of 32 not exceeding v
RoundedDown(v) == CHOOSE q \in Multiples32 : q <= v /\ v < q + 32

NearestKey(p) == <<NearestMultiple(p.r), NearestMultiple(p.g), NearestMultiple(p.b)>>

\* the pixels the loop keeps: alpha >= 128, and in part_000 a brightness
\* from 15 to 240 as well
Kept(p) ==
    /\ p.a >= 128
    /\ variant = "part_000" =>
          (p.r + p.g + p.b >= 3 * 15 /\ p.r + p.g + p.b <= 3 * 240)

\* the pixels the loop has been through
Scanned == 1..(i - 1)

KeptScanned == { j \in Scanned : Kept(pixels[j]) }

\* the kept pixels scanned so far that fall in the bucket of a key
HitsOf(key) == { j \in KeptScanned : NearestKey(pixels[j]) = key }

BucketsOf(key) == { k \in 1..Len(colorMap) : colorMap[k].key = key }

\* C23 as stated: the key of a pixel is each channel rounded down to a
\* multiple of 32, so it is in {0, ..., 224} and never exceeds the channel
C23_KeyRoundsDown ==
    \A j \in KeptScanned :
        \E k \in 1..Len(colorMap) :
            /\ colorMap[k].key = <<RoundedDown(pixels[j].r),
                                   RoundedDown(pixels[j].g),
                                   RoundedDown(pixels[j].b)>>
            /\ colorMap[k].key[1] <= pixels[j].r
            /\ colorMap[k].key[2] <= pixels[j].g
            /\ colorMap[k].key[3] <= pixels[j].b

QuantizeTableOk ==
    \A v \in 0..255 :
        /\ Quantize(v) = NearestMultiple(v)
        /\ Quantize(v) \in Multiples32
        /\ Quantize(v) - v <= 16 /\ v - Quantize(v) < 16

\* C23 amended: the key of a pixel is each channel rounded to the nearest
\* multiple of 32 (Math.round, the upper one at equal distance): for every
\* 8-bit value v the component is in {0, 32, ..., 256}, at most 16 above v
\* and less than 16 below it; two kept pixels are in the same bucket exactly
\* when all three channels round to the same multiples.
C23_KeyRoundsToNearest ==
    /\ QuantizeTableOk
    /\ \A j \in KeptScanned : Cardinality(BucketsOf(NearestKey(pixels[j]))) = 1
    /\ \A k \in 1..Len(colorMap) : HitsOf(colorMap[k].key) # {}
    /\ \A j1, j2 \in KeptScanned :
          (BucketsOf(NearestKey(pixels[j1])) = BucketsOf(NearestKey(pixels[j2])))
             <=> (NearestKey(pixels[j1]) = NearestKey(pixels[j2]))

\* C23 witness: pure red and #F00000 in one bucket, whose key 256 is above
\* both, #E00000 in another
C23_Witness ==
    /\ pc = "resolved"
    /\ pixels = <<Px(255, 0, 0, 255), Px(240, 0, 0, 128), Px(224, 0, 0, 255)>>
    /\ Len(colorMap) = 2
    /\ colorMap[1].key = <<256, 0, 0>> /\ colorMap[1].count = 2
    /\ colorMap[2].key = <<224, 0, 0>>

Channel(p, ch) == IF ch = "r" THEN p.r ELSE IF ch = "g" THEN p.g ELSE p.b

Max(S) == CHOOSE x \in S : \A y \in S : y <= x

Min(S) == CHOOSE x \in S : \A y \in S : x <= y

RECURSIVE FoldHalf(_, _)
\* c <- (c + sample) / 2 over the pixels of H in scan order, from the first
FoldHalf(H, ch) ==
    IF Cardinality(H) = 1 THEN Frac(Channel(pixels[Max(H)], ch))
    ELSE FracScale(FracAdd(FoldHalf(H \ {Max(H)}, ch),
                           Frac(Channel(pixels[Max(H)], ch))), 1, 2)

\* C24: at every point of the pixel loop and after it, each bucket's count
\* is the number of kept pixels scanned so far that round to its key, and
\* each channel of its colour is those pixels folded in scan order with
\* c <- (c + sample) / 2 from the first one; every kept pixel is in a bucket.
C24_CountAndFold ==
    /\ \A j \in KeptScanned : BucketsOf(NearestKey(pixels[j])) # {}
    /\ \A k \in 1..Len(colorMap) :
          LET H == HitsOf(colorMap[k].key)
          IN /\ H # {}
             /\ colorMap[k].count = Cardinality(H)
             /\ FracEq(colorMap[k].r, FoldHalf(H, "r"))
             /\ FracEq(colorMap[k].g, FoldHalf(H, "g"))
             /\ FracEq(colorMap[k].b, FoldHalf(H, "b"))

\* C24 witness: 255, 255, 240 folded to 247.5, the mean being 250
C24_Witness ==
    /\ pc = "resolved"
    /\ pixels = <<Px(255, 0, 0, 255), Px(255, 0, 0, 255), Px(240, 0, 0, 128)>>
    /\ Len(colorMap) = 1
    /\ colorMap[1].count = 3
    /\ FracEq(colorMap[1].r, <<495, 2>>)
    /\ ~FracEq(colorMap[1].r, <<250, 1>>)

\* x is in the cell of q: Math.round(x / 32) * 32 = q
InCell(x, q) == FracLeq(Frac(q - 16), x) /\ FracLess(x, Frac(q + 16))

\* C30: at every point of the pixel loop, each channel of a bucket's colour
\* is in the cell of the bucket's key component (it rounds to it again) and
\* between the least and the greatest value of that channel over the
\* bucket's pixels.
C30_ColourStaysInCell ==
    \A k \in 1..Len(colorMap) :
        LET H == HitsOf(colorMap[k].key)
            val(ch) == IF ch = "r" THEN colorMap[k].r
                       ELSE IF ch = "g" THEN colorMap[k].g ELSE colorMap[k].b
            q(ch) == IF ch = "r" THEN colorMap[k].key[1]
                     ELSE IF ch = "g" THEN colorMap[k].key[2]
                     ELSE colorMap[k].key[3]
        IN \A ch \in {"r", "g", "b"} :
              LET vs == { Channel(pixels[j], ch) : j \in H }
              IN /\ InCell(val(ch), q(ch))
                 /\ vs # {}
                 /\ FracLeq(Frac(Min(vs)), val(ch))
                 /\ FracLeq(val(ch), Frac(Max(vs)))

\* C30 witness: in the loop, 255 and 240 blended to 247.5 in the cell of 256
C30_Witness ==
    /\ pc = "scanning"
    /\ Len(colorMap) = 1
    /\ colorMap[1].key = <<256, 0, 0>>
    /\ colorMap[1].count = 2
    /\ FracEq(colorMap[1].r, <<495, 2>>)

----------------------------------------------------------------------------
(* Claims about the ranking and the choice of the slots *)

\* the pixel loop is over
LoopDone == pc \in {"scanning", "resolved"} /\ loadOutcome = "ok" /\ i > Len(pixels)

Buckets == 1..Len(colorMap)

\* the place of bucket k in the descending order of counts, the bucket seen
\* first coming first among equal counts
RankOf(k) ==
    1 + Cardinality({ j \in Buckets :
                        \/ colorMap[j].count > colorMap[k].count
                        \/ colorMap[j].count = colorMap[k].count /\ j < k })

TopTen == { k \in Buckets : RankOf(k) <= 10 }

\* (max - min) / max > 0.2 on the colour of a bucket, 0 when max is 0
StronglyColoured(c) ==
    LET mx == FracMax(c.r, FracMax(c.g, c.b))
        mn == FracMin(c.r, FracMin(c.g, c.b))
    IN /\ mx[1] > 0
       /\ FracLess(mx, FracScale(FracSub(mx, mn), 5, 1))

StrongTopTen == { k \in TopTen : StronglyColoured(colorMap[k]) }

\* the place of a strongly coloured bucket of the top ten among them
StrongRankOf(k) ==
    1 + Cardinality({ j \in StrongTopTen : RankOf(j) < RankOf(k) })

Selected == { k \in StrongTopTen : StrongRankOf(k) <= 3 }

SelectedAt(n) == CHOOSE k \in Selected : StrongRankOf(k) = n

\* the bucket at place n of the ranking
RankedAt(n) == CHOOSE k \in Buckets : RankOf(k) = n

\* C25: once the loop is over, the saturated candidates are the first up to
\* three buckets, in the descending order of counts (first seen first among
\* equals), of those of the ten most frequent buckets whose colour has
\* saturation above 0.2: at most three, each saturated, in non-increasing
\* count order; a saturated bucket ranked 11th or lower is never among them,
\* and when the top ten holds no saturated bucket the primary colour is the
\* most frequent bucket's.
C25_SaturatedAmongTopTen ==
    LoopDone =>
        LET sel == saturatedColorsOf(sortedColorsOf(colorMap))
        IN /\ Len(sel) <= 3
           /\ Len(sel) = Cardinality(Selected)
           /\ \A k \in Selected : sel[StrongRankOf(k)] = colorMap[k]
           /\ \A n \in 1..Len(sel) :
                 /\ StronglyColoured(sel[n])
                 /\ \E k \in TopTen : sel[n] = colorMap[k]
                 /\ n > 1 => sel[n - 1].count >= sel[n].count
           /\ (pc = "resolved" /\ Selected = {} /\ colorMap # <<>>) =>
                 LET c == colorMap[RankedAt(1)]
                 IN result.primary = toHex(c.r, c.g, c.b)

\* C25 witness: eleven buckets of one pixel each, only the eleventh
\* saturated: nothing is selected and the palette is the one of the most
\* frequent buckets
C25_Witness ==
    /\ pc = "resolved"
    /\ variant = "current"
    /\ Len(colorMap) = 11
    /\ \A k \in 1..11 : colorMap[k].count = 1
    /\ StronglyColoured(colorMap[11])
    /\ \A k \in 1..10 : ~StronglyColoured(colorMap[k])
    /\ Selected = {}
    /\ result.primary = toHex(Frac(250), Frac(200), Frac(200))
    /\ result.secondary = toHex(Frac(0), Frac(0), Frac(0))

HexOf(c) == toHex(c.r, c.g, c.b)

ScaledHexOf(c, num, den) ==
    toHex(FracScale(c.r, num, den), FracScale(c.g, num, den),
          FracScale(c.b, num, den))

Resolved == pc = "resolved" /\ loadOutcome = "ok"

\* C26: when the top ten holds a saturated bucket, primary is the colour of
\* the first saturated candidate; secondary is the colour of the second if
\* there is one, otherwise the primary's channels times 0.8; accent is the
\* colour of the third if there is one, otherwise the primary's channels
\* times 1.2, not clamped to 255.
C26_SaturatedSlots ==
    (Resolved /\ Selected # {}) =>
        LET first == colorMap[SelectedAt(1)]
        IN /\ result.primary = HexOf(first)
           /\ result.secondary =
                 IF Cardinality(Selected) >= 2 THEN HexOf(colorMap[SelectedAt(2)])
                 ELSE ScaledHexOf(first, 4, 5)
           /\ result.accent =
                 IF Cardinality(Selected) >= 3 THEN HexOf(colorMap[SelectedAt(3)])
                 ELSE ScaledHexOf(first, 6, 5)

\* C26 witness: pure red alone: secondary 204 = cc, accent 306 = 132, three
\* hexadecimal digits for the red channel
C26_Witness ==
    /\ Resolved
    /\ pixels = <<Px(255, 0, 0, 255)>>
    /\ Cardinality(Selected) = 1
    /\ result.primary = toHex(Frac(255), Frac(0), Frac(0))
    /\ result.secondary = toHex(Frac(204), Frac(0), Frac(0))
    /\ result.accent = toHex(Frac(306), Frac(0), Frac(0))
    /\ Len(result.accent) = 8

\* the slot n of the palette of the most frequent buckets, the last bucket
\* repeated when there are fewer than n
RepeatedAt(n) ==
    HexOf(colorMap[RankedAt(IF Len(colorMap) >= n THEN n ELSE Len(colorMap))])

\* C27 as stated: with buckets but no saturated one in the top ten, the slots
\* are the three most frequent buckets, the last one repeated when there are
\* fewer than three, and no slot is a fallback constant
C27_LastBucketRepeated ==
    (Resolved /\ Selected = {} /\ colorMap # <<>>) =>
        /\ result.primary = RepeatedAt(1)
        /\ result.secondary = RepeatedAt(2)
        /\ result.accent = RepeatedAt(3)

\* C27 amended: with buckets but no saturated one in the top ten, the slots
\* are the three most frequent buckets in that order; when there are fewer
\* than three, QRCodeGenerator.tsx repeats the last bucket, and part_000
\* fills a missing secondary with #0D9488 and a missing accent with #14B8A6.
C27_MonochromeSlotsPerVariant ==
    (Resolved /\ Selected = {} /\ colorMap # <<>>) =>
        /\ result.primary = RepeatedAt(1)
        /\ result.secondary =
              IF Len(colorMap) >= 2 \/ variant = "current" THEN RepeatedAt(2)
              ELSE FallbackPrimary
        /\ result.accent =
              IF Len(colorMap) >= 3 \/ variant = "current" THEN RepeatedAt(3)
              ELSE FallbackSecondary

\* C27 witness: in part_000 grey and black share the palette with a constant
C27_Witness ==
    /\ Resolved
    /\ variant = "part_000"
    /\ pixels = <<Px(128, 128, 128, 255), Px(128, 128, 128, 255), Px(244, 244, 244, 255)>>
    /\ Len(colorMap) = 1
    /\ result.primary = toHex(Frac(128), Frac(128), Frac(128))
    /\ result.secondary = FallbackPrimary
    /\ result.accent = FallbackSecondary

----------------------------------------------------------------------------
(* Claims about the rotation, the export configuration and downloadQR,     *)
(* checked under Spec                                                      *)

Regions(cfg) == <<cfg.dotsOptions, cfg.cornersSquareOptions, cfg.cornersDotOptions>>

\* x is deg / 180 as a fraction of pi, that is deg * pi / 180 radians
IsRadiansOf(x, deg) == x[2] > 0 /\ x[1] * 180 = deg * x[2]

RotationTableOk ==
    /\ \A deg \in 0..360 : IsRadiansOf(DegToRad(deg), deg)
    /\ DegToRad(0) = <<0, 1>>
    /\ DegToRad(180) = <<1, 1>>

\* C11: in linear mode the rotation of the gradient descriptor handed to the
\* renderer is the configured angle times pi / 180, for every angle 0..360 of
\* the slider; 0 degrees gives 0 and 180 degrees gives pi.
C11_LinearRotationInRadians ==
    /\ RotationTableOk
    /\ settings.gradientType = "linear" =>
          \A k \in ConfigCalls : \A r \in 1..3 :
              IsRadiansOf(Regions(calls[k].cfg)[r].gradient.rotation,
                          settings.gradientRotation)

\* C11 witness: linear mode with the slider moved to 180, the renderer given pi
C11_Witness ==
    /\ settings.gradientType = "linear"
    /\ settings.gradientRotation = 180
    /\ Len(calls) = 1 /\ calls[1].op = "update"
    /\ calls[1].cfg.cornersDotOptions.gradient.rotation = <<1, 1>>

\* what a region is painted with: the gradient when one is set, else the colour
EffectiveFill(region) ==
    IF region.gradient \in {Absent, Undefined} THEN region.color
    ELSE region.gradient

\* every field of a configuration but width and height
StyleFields(cfg) ==
    [data |-> cfg.data,
     shapes |-> ShapesOf(cfg),
     fills |-> <<EffectiveFill(cfg.dotsOptions),
                 EffectiveFill(cfg.cornersSquareOptions),
                 EffectiveFill(cfg.cornersDotOptions)>>,
     background |-> cfg.backgroundOptions,
     image |-> cfg.image,
     imageOptions |-> cfg.imageOptions,
     qrOptions |-> cfg.qrOptions]

ExportCalls ==
    { k \in 1..Len(calls) : calls[k].op = "new" /\ calls[k].target = "exportQR" }

\* C12: for the current settings and every export size of the slider, the
\* configuration built for a PNG export has the data, the three shapes, the
\* three fills, the background, the logo image, the logo margin and size cap
\* and the error-correction level of the preview renderer's configuration;
\* only width and height differ (the export size against 280).
C12_ExportEqualsPreviewButSize ==
    qrCodeRef # "null" =>
        /\ preview.width = Num(PreviewSize) /\ preview.height = Num(PreviewSize)
        /\ StyleFields(InitConfig(settings)) = StyleFields(preview)
        /\ \A size \in SliderPositions :
              LET cfg == ExportConfig(settings, size)
              IN /\ StyleFields(cfg) = StyleFields(preview)
                 /\ cfg.width = Num(size) /\ cfg.height = Num(size)
        /\ \A k \in ExportCalls :
              /\ StyleFields(calls[k].cfg) = StyleFields(preview)
              /\ calls[k].cfg.width = Num(exportSize)
              /\ calls[k].cfg.height = Num(exportSize)

\* C12 witness: a PNG export at 256 in linear mode with the logo in place,
\* the preview still holding the solid colour of before under its gradient
C12_Witness ==
    /\ event = Event("downloadQR", "png")
    /\ ExportCalls # {}
    /\ exportSize = SliderMin
    /\ settings.gradientType = "linear"
    /\ settings.style = "rounded"
    /\ preview.image = Str(lovableHeart)
    /\ preview.dotsOptions.color = Str(ColorFF560E)
    /\ settings.fgColor = Color000000

\* the state in which a frame or a caption is chosen
FrameOrCaption == settings.frameStyle # "none" \/ settings.ctaOption # "none"

CallsOf(op) == { k \in 1..Len(calls) : calls[k].op = op }

\* the configuration of the renderer that download call k is made on
ProducingConfig(k) ==
    IF calls[k].target = "exportQR" THEN calls[k - 1].cfg ELSE preview

\* C13 as stated: with no frame and no caption, an export in either format
\* asks the renderer for a file of that format from a configuration whose
\* width and height are the export size
C13_DirectExportAtExportSize ==
    (event.name = "downloadQR" /\ ~FrameOrCaption) =>
        /\ CallsOf("download") # {}
        /\ \A k \in CallsOf("download") :
              /\ calls[k].ext = event.arg
              /\ ProducingConfig(k).width = Num(exportSize)
              /\ ProducingConfig(k).height = Num(exportSize)
        /\ \A k \in CallsOf("save") : calls[k].ext = event.arg

\* C13 amended: with no frame and no caption, a png export asks a renderer
\* built for it, whose width and height are the export size, for a png file;
\* an svg export asks the preview renderer, whose width and height are 280
\* whatever the export size, for an svg file; a saved file has the requested
\* format.
C13_PngAtExportSizeSvgFromPreview ==
    (event.name = "downloadQR" /\ ~FrameOrCaption) =>
        /\ Cardinality(CallsOf("download")) = 1
        /\ \A k \in CallsOf("download") :
              /\ calls[k].ext = event.arg
              /\ event.arg = "png" =>
                    /\ calls[k].target = "exportQR"
                    /\ ProducingConfig(k).width = Num(exportSize)
                    /\ ProducingConfig(k).height = Num(exportSize)
              /\ event.arg = "svg" =>
                    /\ calls[k].target = qrCodeRef
                    /\ ProducingConfig(k).width = Num(PreviewSize)
                    /\ ProducingConfig(k).height = Num(PreviewSize)
        /\ \A k \in CallsOf("save") : calls[k].ext = event.arg

\* C13 witness: an svg file saved by the preview renderer, 280 wide, while
\* the export size is 256
C13_Witness ==
    /\ event = Event("downloadQR", "svg")
    /\ ~FrameOrCaption
    /\ exportSize = SliderMin
    /\ CallsOf("save") # {}
    /\ calls[1].op = "download" /\ calls[1].target = "preview"
    /\ preview.width = Num(PreviewSize)

\* C14: with a frame or a caption chosen, an export of either requested
\* format captures the frame wrapper (the subtree of symbol, frame and
\* caption) and the file it saves, which it does whenever the capture
\* succeeds, is the PNG of the link; the renderer's download is not called,
\* no export renderer is built and no svg file is produced.
C14_FramedExportCapturesToPng ==
    (event.name = "downloadQR" /\ FrameOrCaption) =>
        /\ calls[1].op = "html2canvas" /\ calls[1].target = "frameWrapper"
        /\ CallsOf("download") = {} /\ CallsOf("new") = {}
        /\ \A k \in CallsOf("save") :
              calls[k].target = "link" /\ calls[k].ext = "png"
        /\ CallsOf("save") # {} \/ CallsOf("console.error") # {}
        /\ ~(CallsOf("save") # {} /\ CallsOf("console.error") # {})

\* C14 witness: svg requested with only a caption chosen, a PNG saved
C14_Witness ==
    /\ event = Event("downloadQR", "svg")
    /\ settings.frameStyle = "none" /\ settings.ctaOption = "custom"
    /\ calls[1].op = "html2canvas"
    /\ Len(calls) = 2 /\ calls[2] = Call("save", "link", NoConfig, "png")

\* scale is max(1, size / w), so at least 1 and scale * w at least size
ScaleOk(scale, size, w) ==
    /\ scale[2] > 0
    /\ scale[1] >= scale[2]
    /\ scale[1] * w >= size * scale[2]
    /\ size >= w => scale[1] * w = size * scale[2]
    /\ size < w => scale[1] = scale[2]

ScaleTableOk ==
    /\ \A size \in SliderPositions : \A w \in 1..MaxRenderedWidth :
          ScaleOk(CaptureScale(size, w), size, w)
    /\ LET scale == CaptureScale(DefaultExportSize, PreviewSize)
       IN /\ scale[1] * PreviewSize = DefaultExportSize * scale[2]
          /\ 100 * scale[1] >= 365 * scale[2]

\* C15: the capture scale is max(1, exportSize / renderedWidth): never below
\* 1, and scale * renderedWidth is at least the export size for every slider
\* position 256..2048 and every rendered width from 1 up; for 1024 and 280
\* it is 1024 / 280, at least 3.65; every capture is taken at that scale.
C15_CaptureScaleCoversExportSize ==
    /\ ScaleTableOk
    /\ \A k \in CallsOf("html2canvas") :
          \E w \in RenderedWidths :
              /\ calls[k].cfg.scale = CaptureScale(exportSize, w)
              /\ ScaleOk(calls[k].cfg.scale, exportSize, w)

\* C15 witness: a capture at export size 1024 of a wrapper 280 wide
C15_Witness ==
    /\ event.name = "downloadQR"
    /\ CallsOf("html2canvas") # {}
    /\ exportSize = DefaultExportSize
    /\ calls[1].cfg.scale = <<DefaultExportSize, PreviewSize>>

\* C16: an svg export with frameStyle 'none' and ctaOption 'none' never
\* captures the subtree: the only collaborator called is the preview
\* renderer, for its download.
C16_UnframedSvgNeverCaptures ==
    (event = Event("downloadQR", "svg") /\ ~FrameOrCaption) =>
        /\ CallsOf("html2canvas") = {}
        /\ CallsOf("new") = {}
        /\ calls[1] = Call("download", qrCodeRef, NoConfig, "svg")
        /\ \A k \in 1..Len(calls) : calls[k].target \in {qrCodeRef, "window"}

\* C16 witness: such an export, its svg file saved by the preview renderer
C16_Witness ==
    /\ event = Event("downloadQR", "svg")
    /\ ~FrameOrCaption
    /\ settings.gradientType = "radial"
    /\ calls = <<Call("download", "preview", NoConfig, "svg"),
                 Call("save", "preview", NoConfig, "svg")>>

\* C17 as stated: an export that fails, in the capture or in the renderer's
\* direct export, saves no file, is logged by downloadQR, and lets no
\* exception or rejected promise out
C17_ExportFailuresCaughtAndLogged ==
    (event.name = "downloadQR" /\ CallsOf("save") = {}) =>
        /\ CallsOf("console.error") # {}
        /\ CallsOf("unhandledrejection") = {}

\* C21: an export, png or svg, framed or not, saved or failed, leaves the
\* settings, the suggestion palette, the export size and the preview
\* renderer's configuration as they were, 280 x 280 included; the renderer a
\* png export builds is another instance than the preview's.
C21_ExportLeavesStateAlone ==
    /\ [](qrCodeRef # "null" =>
            /\ preview.width = Num(PreviewSize)
            /\ preview.height = Num(PreviewSize)
            /\ \A k \in ExportCalls : calls[k].target # qrCodeRef)
    /\ [][event'.name = "downloadQR" =>
              /\ settings' = settings
              /\ suggestedColors' = suggestedColors
              /\ exportSize' = exportSize
              /\ preview' = preview
              /\ qrCodeRef' = qrCodeRef
         ]_vars

\* C21 witness: a failed png export at 256 after edits, the preview still
\* 280 x 280 with the edited settings in it
C21_Witness ==
    /\ event = Event("downloadQR", "png")
    /\ CallsOf("unhandledrejection") # {}
    /\ exportSize = SliderMin
    /\ settings.style = "dots"
    /\ preview.width = Num(PreviewSize)
    /\ preview.dotsOptions.type = "dots"

\* C22 as stated: the rotation held in the settings is in [0, 360)
C22_RotationBelow360 ==
    settings.gradientRotation \in 0..359

\* C22 amended: the rotation held in the settings is an integer of the closed
\* range 0..360: the slider stores its upper end 360 like any other position,
\* and nothing outside the range.
C22_RotationWithinSlider ==
    settings.gradientRotation \in 0..360

\* C22 witness: the slider at its upper end, 2 pi handed to the renderer
C22_Witness ==
    /\ settings.gradientType = "linear"
    /\ settings.gradientRotation = 360
    /\ Len(calls) = 1 /\ calls[1].op = "update"
    /\ calls[1].cfg.dotsOptions.gradient.rotation = <<2, 1>>

----------------------------------------------------------------------------
(* Claims about the logo, the extractions in flight and the suggestions,   *)
(* checked under SpecAsync                                                 *)

ColorFields(s) == <<s.fgColor, s.fgColor2, s.bgColor, s.frameColor, s.ctaColor>>

\* C18: the resolution of an extraction, the one of the mount or one of an
\* upload, writes the suggestion palette and nothing else: settings, export
\* size and preview stay as they are and the renderer is not called; a
\* colour field of the settings changes only in a step of the user (a click
\* on a swatch, which writes one colour of the palette shown, or an edit).
C18_SuggestionsNeverAutoApplied ==
    [][ /\ event'.name = "setSuggestedColors" =>
              /\ settings' = settings
              /\ exportSize' = exportSize
              /\ preview' = preview
              /\ calls' = <<>>
              /\ suggestedColors' \in { ExtractedColors(src) : src \in ImageSrcs }
        /\ suggestedColors' \notin {suggestedColors, Null} =>
              ColorFields(settings') = ColorFields(settings)
        /\ ColorFields(settings') # ColorFields(settings) =>
              event'.name \in {"swatch", "updateSetting"}
        /\ event'.name = "swatch" =>
              /\ suggestedColors # Null
              /\ \E slot \in Slots :
                    settings' = [settings EXCEPT ![event'.arg] = suggestedColors[slot]]
      ]_vars

\* C18 witness: the extraction of an uploaded file has resolved, its palette
\* is shown and every colour field still has its initial value
C18_Witness ==
    /\ event.name = "setSuggestedColors"
    /\ settings.logo = Str(FileA)
    /\ suggestedColors = ExtractedColors(FileA)
    /\ ColorFields(settings) = ColorFields(InitialSettings)

\* the fill the current settings derive
DerivedFill(s) ==
    IF s.gradientType = "none" THEN Str(s.fgColor) ELSE GradientOf(s)

C20_ExtractionNeverCancelled ==
    [][\A src \in ImageSrcs :
          /\ extractions'[src] >= extractions[src] - 1
          /\ extractions'[src] < extractions[src] =>
                /\ suggestedColors' = ExtractedColors(src)
                /\ event'.name = "setSuggestedColors"
      ]_vars

\* C20 witness: two uploads, the extraction of the first resolved after the
\* one of the second: the logo is the second file, the palette the first's
C20_Witness ==
    /\ uploads = 2
    /\ settings.logo = Str(FileB)
    /\ suggestedColors = ExtractedColors(FileA)
    /\ suggestedColors # ExtractedColors(FileB)
    /\ extractions = NoneInFlight(ImageSrcs)
    /\ reads = NoneInFlight(Files)

\* C28 as stated: in every reachable state, no logo means no suggestion
\* palette, whatever resolves after removeLogo
C28_NoLogoNoSuggestions == settings.logo = Null => suggestedColors = Null

SettingsKeys == DOMAIN InitialSettings

\* C29: the logo write of a completed file read changes the logo field only,
\* every other field keeping the value it has when the read completes, and
\* leaves the palette and the export size alone; a palette write changes
\* neither the settings, nor the export size, nor the preview.
C29_AsyncWritesKeepEdits ==
    [][/\ event'.name = "onloadend" =>
            /\ \A key \in SettingsKeys \ {"logo"} : settings'[key] = settings[key]
            /\ settings'.logo \in { Str(file) : file \in Files }
            /\ suggestedColors' = suggestedColors
            /\ exportSize' = exportSize
       /\ event'.name = "setSuggestedColors" =>
            /\ settings' = settings
            /\ exportSize' = exportSize
            /\ preview' = preview
      ]_vars

\* C29 witness: the read of the first file completed on settings whose style
\* and frame had been edited, and a palette in place
C29_Witness ==
    /\ event.name = "onloadend"
    /\ uploads = 1
    /\ settings.logo = Str(FileA)
    /\ settings.style = "dots"
    /\ settings.frameStyle = "badge"
    /\ settings.fgColor = ExtractedColors(lovableHeart).primary
    /\ suggestedColors = ExtractedColors(lovableHeart)
    /\ preview.image = Str(FileA)
    /\ preview.dotsOptions.type = "dots"

====
